---- MODULE Spec2Model ----
(***************************************************************************)
(* State-machine model of the client-side stores of the ruankao            *)
(* mini-program: useAppStore (src/src/store/index.ts), useQuestionStore    *)
(* (src/src/pages/profile/index.tsx) and the answer handler of the         *)
(* question page (src/src/pages/question/index.tsx), the wrong-answers     *)
(* page (src/src/pages/wrongAnswers/index.tsx), the recommendation call   *)
(* of MockDataService and AuthService (src/src/store/index.ts), HttpClient *)
(* (src/unnamed/part_001) and the AI chat (src/unnamed/part_000,           *)
(* src/src/services/aiConversation.ts).                                    *)
(*                                                                         *)
(* Mastery scores are JavaScript numbers in the source.  They are kept     *)
(* here in hundredths (0.5 is 50, +0.1 is +10, -0.05 is -5), so the model  *)
(* computes the update rule in exact arithmetic; the rounding residue of   *)
(* IEEE doubles (0.7 + 0.1 = 0.7999999999999999) is not represented.       *)
(***************************************************************************)
EXTENDS Integers, Sequences, FiniteSets, TLC

VARIABLES
    \* useAppStore
    currentQuestion, questionQueue, currentIndex, isLoading, userProfile,
    answerHistory, streak, sessionQuestions, sessionCorrect, showResult,
    lastAnswer,
    \* useQuestionStore
    questions, qsCurrentIndex, userAnswers, showAnswers, answerRecords,
    qsTotalQuestions, correctCount, currentStreak, loading, error,
    \* useUserStore.user and the MOCK_USER_PROFILE of MockDataService
    user, mockUserProfile,
    \* the question page: the values its last render closed over, the calls of
    \* selectAnswer suspended at an await, the pending batch request, and its
    \* component state
    rendered, calls, loader, pageIsLoading, aiConversations,
    \* the wrong-answers page: its component state and the answerHistory its
    \* effect last ran for
    wrongQuestions, waCurrentIndex, showExplanation, effectHistory,
    \* MockDataService.getRecommendedQuestions: the count of the call in
    \* progress and the batch the last call returned; the MOCK_QUESTIONS array
    recommendCount, recommendations, mockQuestions,
    \* HttpClient and AuthService: the Taro storage and the request in flight
    storage, httpCall,
    \* AIChat, useAIStore and aiConversationService: the component state, the
    \* store's conversations, the service's conversationHistory, the number
    \* of sessions started and the sendMessage in flight
    sessionId, messages, chatIsLoading, inputText, conversations,
    currentSessionId, isTyping, conversationHistory, sessionsStarted, chatCall

appVars == <<currentQuestion, questionQueue, currentIndex, isLoading,
             userProfile, answerHistory, streak, sessionQuestions,
             sessionCorrect, showResult, lastAnswer>>

qsVars == <<questions, qsCurrentIndex, userAnswers, showAnswers,
            answerRecords, qsTotalQuestions, correctCount, currentStreak,
            loading, error>>

pageVars == <<user, mockUserProfile, rendered, calls, loader, pageIsLoading,
              aiConversations>>

waVars == <<wrongQuestions, waCurrentIndex, showExplanation, effectHistory>>

mockVars == <<recommendCount, recommendations, mockQuestions>>

authVars == <<storage, httpCall>>

chatVars == <<sessionId, messages, chatIsLoading, inputText, conversations,
              currentSessionId, isTyping, conversationHistory,
              sessionsStarted, chatCall>>

vars == <<appVars, qsVars, pageVars, waVars, mockVars, authVars, chatVars>>

(***************************************************************************)
(* Bounds of the exploration.                                              *)
(***************************************************************************)
\* answers recorded in useAppStore in the specifications with every action
MaxAnswers == 4
\* answers recorded in useAppStore in SpecProfile
MaxProfileAnswers == 3
\* answers recorded in both stores together, in SpecStreak
MaxStreakAnswers == 4
\* answers recorded in useQuestionStore, in SpecQs
MaxRecords == 3
\* calls of selectAnswer that may be suspended at once
MaxCalls == 2
\* answers recorded through the question page, in SpecPage
MaxPageAnswers == 2
\* length of the question list up to which the page loads more, in SpecPage
MaxPageQuestions == 2
\* answers of a history that mixes questions, in SpecMastery
MaxMixed == 5
\* answers of a history on a single question, in SpecMastery
MaxDrill == 12
\* answers recorded in useAppStore in SpecWrong
MaxReviewAnswers == 3
\* the largest count asked of getRecommendedQuestions in SpecRecommend
MaxCount == 6
\* answers recorded in each store in SpecReject
MaxRejectAnswers == 3
\* answers recorded in each store in SpecLatency
MaxLatencyAnswers == 2
\* answers recorded in useAppStore in SpecQueue
MaxQueueAnswers == 3
\* answers recorded in useAppStore in SpecMastered
MaxMasteredAnswers == 4
\* chat sessions started in SpecChat
MaxSessions == 3
\* messages of one conversation of useAIStore in SpecChat
MaxChatMessages == 5
\* answers recorded in each store in SpecSelect
MaxSelectAnswers == 1

(***************************************************************************)
(* The question catalogue: the fields of a question the stores read.  Two   *)
(* questions of the shape of MOCK_QUESTIONS stand for the catalogue; they  *)
(* share the knowledge point K1, which the stores allow.                   *)
(***************************************************************************)
Null == "null"

\* a null or undefined where the source holds an object otherwise, and the
\* object itself
None == <<>>

Some(x) == <<x>>

QuestionIds == {"q1", "q2"}

Options == {"A", "B"}

Question(id) ==
    IF id = "q1"
    THEN [id |-> "q1", correctAnswer |-> "A", knowledgePoints |-> <<"K1">>]
    ELSE [id |-> "q2", correctAnswer |-> "B", knowledgePoints |-> <<"K1", "K2">>]

\* the ids of MOCK_QUESTIONS, in the order of the array
MOCK_QUESTIONS == <<"q_001", "q_002", "q_003", "q_004", "q_005">>

\* the keys AuthService and HttpClient keep in the Taro storage
StorageKeys == {"auth_token", "refresh_token", "token_expire_time"}

\* no request: the fields of a request and of the call that sent it
\* caller is the method that sent it, authorized tells whether the request
\* carries an Authorization header, statusCode is 0 until a response came,
\* result is what HttpClient.request gave and outcome what the caller gave
IdleHttpCall ==
    [pc |-> "idle", caller |-> "none", method |-> "GET", authorized |-> FALSE,
     statusCode |-> 0, result |-> "none", outcome |-> "none"]

Max(a, b) == IF a >= b THEN a ELSE b

Min(a, b) == IF a <= b THEN a ELSE b

(***************************************************************************)
(* useAppStore                                                             *)
(***************************************************************************)
InitApp ==
    /\ currentQuestion = Null
    /\ questionQueue = <<>>
    /\ currentIndex = 0
    /\ isLoading = FALSE
    /\ userProfile = [masteryMatrix |-> <<>>, totalQuestions |-> 0,
                      correctAnswers |-> 0, streak |-> 0, longestStreak |-> 0]
    /\ answerHistory = <<>>
    /\ streak = 0
    /\ sessionQuestions = 0
    /\ sessionCorrect = 0
    /\ showResult = FALSE
    /\ lastAnswer = None

InitQs ==
    /\ questions = <<>>
    /\ qsCurrentIndex = 0
    /\ userAnswers = <<>>
    /\ showAnswers = <<>>
    /\ answerRecords = <<>>
    /\ qsTotalQuestions = 0
    /\ correctCount = 0
    /\ currentStreak = 0
    /\ loading = FALSE
    /\ error = Null

IdleCall == [pc |-> "idle", questionId |-> Null, isCorrect |-> FALSE,
             responseTime |-> 0, user |-> None]

InitPage ==
    /\ user = None
    /\ mockUserProfile = [totalQuestions |-> 156, correctAnswers |-> 98,
                          currentStreak |-> 5, longestStreak |-> 12,
                          experience |-> 1250]
    /\ rendered = [questions |-> <<>>, currentIndex |-> 0, userAnswers |-> <<>>,
                   showAnswers |-> <<>>, user |-> None]
    /\ calls = [c \in 1..MaxCalls |-> IdleCall]
    /\ loader = [pc |-> "idle", questions |-> <<>>]
    /\ pageIsLoading = FALSE
    /\ aiConversations = <<>>

\* useState([]), useState(0), useState(false); the effect has not run yet
InitWrong ==
    /\ wrongQuestions = <<>>
    /\ waCurrentIndex = 0
    /\ showExplanation = FALSE
    /\ effectHistory = None

InitMock ==
    /\ recommendCount = None
    /\ recommendations = None
    /\ mockQuestions = MOCK_QUESTIONS

\* no token is stored and no request is in flight
InitAuth ==
    /\ storage = [key \in StorageKeys |-> Null]
    /\ httpCall = IdleHttpCall

\* the chat is closed: useState(null), useState([]), useState(false), the
\* initial state of useAIStore and an empty conversationHistory
InitChat ==
    /\ sessionId = None
    /\ messages = <<>>
    /\ chatIsLoading = FALSE
    /\ inputText = ""
    /\ conversations = <<>>
    /\ currentSessionId = None
    /\ isTyping = FALSE
    /\ conversationHistory = <<>>
    /\ sessionsStarted = 0
    /\ chatCall = None

Init ==
    /\ InitApp /\ InitQs /\ InitPage /\ InitWrong /\ InitMock
    /\ InitAuth /\ InitChat

setCurrentQuestion(question) ==
    /\ currentQuestion' = question
    /\ UNCHANGED <<questionQueue, currentIndex, isLoading, userProfile,
                   answerHistory, streak, sessionQuestions, sessionCorrect,
                   showResult, lastAnswer>>
    /\ UNCHANGED <<qsVars, pageVars, waVars, mockVars, authVars, chatVars>>

setQuestionQueue(qs) ==
    /\ questionQueue' = qs
    /\ currentIndex' = 0
    /\ currentQuestion' = IF Len(qs) > 0 THEN qs[1] ELSE Null
    /\ UNCHANGED <<isLoading, userProfile, answerHistory, streak,
                   sessionQuestions, sessionCorrect, showResult, lastAnswer>>
    /\ UNCHANGED <<qsVars, pageVars, waVars, mockVars, authVars, chatVars>>

\* currentIndex counts from 0 as in the source: questionQueue[i] is qs[i + 1]
nextQuestion ==
    LET nextIndex == currentIndex + 1 IN
    /\ IF nextIndex < Len(questionQueue)
       THEN /\ currentIndex' = nextIndex
            /\ currentQuestion' = questionQueue[nextIndex + 1]
            /\ UNCHANGED isLoading
       ELSE /\ isLoading' = TRUE
            /\ UNCHANGED <<currentIndex, currentQuestion>>
    /\ showResult' = FALSE
    /\ lastAnswer' = None
    /\ UNCHANGED <<questionQueue, userProfile, answerHistory, streak,
                   sessionQuestions, sessionCorrect>>
    /\ UNCHANGED <<qsVars, pageVars, waVars, mockVars, authVars, chatVars>>

\* ClampScore without the Math.min(1, ...)
ClampScoreNoCeiling(x) == Max(0, x)

\* Math.max(0, Math.min(1, x)), in hundredths
ClampScore(x) == Max(0, Min(100, x))

\* newMasteryMatrix[point] || 0.5: a missing key and a stored 0 both give 0.5
CurrentMastery(matrix, point) ==
    IF point \in DOMAIN matrix /\ matrix[point] # 0 THEN matrix[point] ELSE 50

\* Adjustment taking as much for a wrong answer as it gives for a right one
AdjustmentSymmetric(isCorrect) == IF isCorrect THEN 10 ELSE -10

\* isCorrect ? 0.1 : -0.05, in hundredths
Adjustment(isCorrect) == IF isCorrect THEN 10 ELSE -5

SetScore(matrix, point, score) ==
    [k \in (DOMAIN matrix) \cup {point} |->
        IF k = point THEN score ELSE matrix[k]]

\* the forEach over currentQuestion.knowledgePoints, in order
RECURSIVE UpdateMastery(_, _, _)
UpdateMastery(matrix, points, isCorrect) ==
    IF points = <<>> THEN matrix
    ELSE LET point == Head(points)
             currentMastery == CurrentMastery(matrix, point)
             adjustment == Adjustment(isCorrect)
         IN UpdateMastery(
                SetScore(matrix, point, ClampScore(currentMastery + adjustment)),
                Tail(points), isCorrect)

\* NewStreak without the reset on a wrong answer
NewStreakNoReset(isCorrect, s) == IF isCorrect THEN s + 1 ELSE s

NewStreak(isCorrect, s) == IF isCorrect THEN s + 1 ELSE 0

AnswerRecord(question, answer, responseTime) ==
    [questionId |-> question.id, userAnswer |-> answer,
     isCorrect |-> (answer = question.correctAnswer),
     responseTime |-> responseTime, question |-> question.id]

\* the profile after one more recorded answer; s is the store's streak
ProfileAfter(profile, s, question, isCorrect) ==
    LET newStreak == NewStreak(isCorrect, s) IN
    [profile EXCEPT
        !.totalQuestions = @ + 1,
        !.correctAnswers = @ + (IF isCorrect THEN 1 ELSE 0),
        !.streak = newStreak,
        !.longestStreak = Max(@, newStreak),
        !.masteryMatrix = UpdateMastery(@, question.knowledgePoints, isCorrect)]

submitAnswer(answer, responseTime) ==
    /\ currentQuestion # Null
    /\ LET question == Question(currentQuestion)
           isCorrect == answer = question.correctAnswer
       IN /\ answerHistory' =
                Append(answerHistory, AnswerRecord(question, answer, responseTime))
          /\ streak' = NewStreak(isCorrect, streak)
          /\ sessionQuestions' = sessionQuestions + 1
          /\ sessionCorrect' = sessionCorrect + (IF isCorrect THEN 1 ELSE 0)
          /\ showResult' = TRUE
          /\ lastAnswer' =
                Some([isCorrect |-> isCorrect, explanation |-> question.id])
          /\ userProfile' = ProfileAfter(userProfile, streak, question, isCorrect)
    /\ UNCHANGED <<currentQuestion, questionQueue, currentIndex, isLoading>>
    /\ UNCHANGED <<qsVars, pageVars, waVars, mockVars, authVars, chatVars>>

\* if (!currentQuestion) return
submitAnswerNoQuestion ==
    /\ currentQuestion = Null
    /\ UNCHANGED vars

resetSession ==
    /\ sessionQuestions' = 0
    /\ sessionCorrect' = 0
    /\ showResult' = FALSE
    /\ lastAnswer' = None
    /\ currentIndex' = 0
    /\ UNCHANGED <<currentQuestion, questionQueue, isLoading, userProfile,
                   answerHistory, streak>>
    /\ UNCHANGED <<qsVars, pageVars, waVars, mockVars, authVars, chatVars>>

\* {...userProfile, ...updates}: the fields of updates replace the profile's
updateUserProfile(updates) ==
    /\ userProfile' = [f \in DOMAIN userProfile |->
                          IF f \in DOMAIN updates THEN updates[f]
                          ELSE userProfile[f]]
    /\ UNCHANGED <<currentQuestion, questionQueue, currentIndex, isLoading,
                   answerHistory, streak, sessionQuestions, sessionCorrect,
                   showResult, lastAnswer>>
    /\ UNCHANGED <<qsVars, pageVars, waVars, mockVars, authVars, chatVars>>

setLoading(value) ==
    /\ isLoading' = value
    /\ UNCHANGED <<currentQuestion, questionQueue, currentIndex, userProfile,
                   answerHistory, streak, sessionQuestions, sessionCorrect,
                   showResult, lastAnswer>>
    /\ UNCHANGED <<qsVars, pageVars, waVars, mockVars, authVars, chatVars>>

\* Dedupe keeping every occurrence
DedupeKeepAll(qs, seen) == qs

\* the second filter of getWrongQuestions: keep the first occurrence of each id
RECURSIVE Dedupe(_, _)
Dedupe(qs, seen) ==
    IF qs = <<>> THEN <<>>
    ELSE IF Head(qs) \in seen THEN Dedupe(Tail(qs), seen)
    ELSE <<Head(qs)>> \o Dedupe(Tail(qs), seen \cup {Head(qs)})

RECURSIVE MapQuestion(_)
MapQuestion(records) ==
    IF records = <<>> THEN <<>>
    ELSE <<Head(records).question>> \o MapQuestion(Tail(records))

IsWrongRecord(record) == ~record.isCorrect

GetWrongQuestionsOf(history) ==
    Dedupe(MapQuestion(SelectSeq(history, IsWrongRecord)), {})

getWrongQuestions == GetWrongQuestionsOf(answerHistory)

IsCorrectRecord(record) == record.isCorrect

\* ClearedHistory keeping the records after the first wrong one as well
ClearedHistoryFirstOnly(history) ==
    IF \A i \in 1..Len(history) : history[i].isCorrect THEN history
    ELSE LET first == CHOOSE i \in 1..Len(history) :
                          /\ ~history[i].isCorrect
                          /\ \A j \in 1..(i - 1) : history[j].isCorrect
         IN SubSeq(history, 1, first - 1)
                \o SubSeq(history, first + 1, Len(history))

\* answerHistory.filter(record => record.isCorrect)
ClearedHistory(history) == SelectSeq(history, IsCorrectRecord)

clearWrongAnswers ==
    /\ answerHistory' = ClearedHistory(answerHistory)
    /\ UNCHANGED <<currentQuestion, questionQueue, currentIndex, isLoading,
                   userProfile, streak, sessionQuestions, sessionCorrect,
                   showResult, lastAnswer>>
    /\ UNCHANGED <<qsVars, pageVars, waVars, mockVars, authVars, chatVars>>

\* MasteredHistory dropping the correct records of the question as well
MasteredHistoryAllRecords(history, questionId) ==
    SelectSeq(history, LAMBDA record : record.questionId # questionId)

\* answerHistory.filter(record =>
\*     !(record.questionId === questionId && !record.isCorrect))
MasteredHistory(history, questionId) ==
    SelectSeq(history,
              LAMBDA record :
                  ~(record.questionId = questionId /\ ~record.isCorrect))

markQuestionAsMastered(questionId) ==
    /\ answerHistory' = MasteredHistory(answerHistory, questionId)
    /\ UNCHANGED <<currentQuestion, questionQueue, currentIndex, isLoading,
                   userProfile, streak, sessionQuestions, sessionCorrect,
                   showResult, lastAnswer>>
    /\ UNCHANGED <<qsVars, pageVars, waVars, mockVars, authVars, chatVars>>

(***************************************************************************)
(* useQuestionStore                                                        *)
(***************************************************************************)
qsSetQuestions(qs) ==
    /\ questions' = qs
    /\ qsTotalQuestions' = Len(qs)
    /\ qsCurrentIndex' = 0
    /\ userAnswers' = <<>>
    /\ showAnswers' = <<>>
    /\ correctCount' = 0
    /\ currentStreak' = 0
    /\ UNCHANGED <<answerRecords, loading, error>>
    /\ UNCHANGED <<appVars, pageVars, waVars, mockVars, authVars, chatVars>>

setCurrentIndex(index) ==
    /\ IF index >= 0 /\ index < Len(questions)
       THEN qsCurrentIndex' = index
       ELSE UNCHANGED qsCurrentIndex
    /\ UNCHANGED <<questions, userAnswers, showAnswers, answerRecords,
                   qsTotalQuestions, correctCount, currentStreak, loading,
                   error>>
    /\ UNCHANGED <<appVars, pageVars, waVars, mockVars, authVars, chatVars>>

\* HasQuestion looking the id up in the catalogue
HasQuestionInCatalogue(questionId) == questionId \in QuestionIds

\* questions.find(q => q.id === questionId)
HasQuestion(questionId) ==
    \E i \in 1..Len(questions) : questions[i] = questionId

QsAnswerRecord(question, answer, responseTime) ==
    [questionId |-> question.id, userAnswer |-> answer,
     isCorrect |-> (answer = question.correctAnswer),
     responseTime |-> responseTime]

NewCorrectCount(isCorrect, count) == IF isCorrect THEN count + 1 ELSE count

\* NewCurrentStreak counting wrong answers too
NewCurrentStreakNoReset(isCorrect, s) == s + 1

NewCurrentStreak(isCorrect, s) == IF isCorrect THEN s + 1 ELSE 0

PutKey(map, key, value) ==
    [k \in (DOMAIN map) \cup {key} |-> IF k = key THEN value ELSE map[k]]

addUserAnswer(questionId, answer, responseTime) ==
    /\ IF ~HasQuestion(questionId)
       THEN UNCHANGED <<userAnswers, answerRecords, correctCount, currentStreak>>
       ELSE LET question == Question(questionId)
                isCorrect == answer = question.correctAnswer
            IN /\ userAnswers' = PutKey(userAnswers, questionId, answer)
               /\ answerRecords' =
                     Append(answerRecords,
                            QsAnswerRecord(question, answer, responseTime))
               /\ correctCount' = NewCorrectCount(isCorrect, correctCount)
               /\ currentStreak' = NewCurrentStreak(isCorrect, currentStreak)
    /\ UNCHANGED <<questions, qsCurrentIndex, showAnswers, qsTotalQuestions,
                   loading, error>>
    /\ UNCHANGED <<appVars, pageVars, waVars, mockVars, authVars, chatVars>>

showAnswer(questionId) ==
    /\ showAnswers' = PutKey(showAnswers, questionId, TRUE)
    /\ UNCHANGED <<questions, qsCurrentIndex, userAnswers, answerRecords,
                   qsTotalQuestions, correctCount, currentStreak, loading,
                   error>>
    /\ UNCHANGED <<appVars, pageVars, waVars, mockVars, authVars, chatVars>>

\* qsNextQuestion without the test against questions.length
qsNextQuestionUnguarded ==
    /\ qsCurrentIndex' = qsCurrentIndex + 1
    /\ UNCHANGED <<questions, userAnswers, showAnswers, answerRecords,
                   qsTotalQuestions, correctCount, currentStreak, loading,
                   error>>
    /\ UNCHANGED <<appVars, pageVars, waVars, mockVars, authVars, chatVars>>

qsNextQuestion ==
    /\ IF qsCurrentIndex < Len(questions) - 1
       THEN qsCurrentIndex' = qsCurrentIndex + 1
       ELSE UNCHANGED qsCurrentIndex
    /\ UNCHANGED <<questions, userAnswers, showAnswers, answerRecords,
                   qsTotalQuestions, correctCount, currentStreak, loading,
                   error>>
    /\ UNCHANGED <<appVars, pageVars, waVars, mockVars, authVars, chatVars>>

previousQuestion ==
    /\ IF qsCurrentIndex > 0
       THEN qsCurrentIndex' = qsCurrentIndex - 1
       ELSE UNCHANGED qsCurrentIndex
    /\ UNCHANGED <<questions, userAnswers, showAnswers, answerRecords,
                   qsTotalQuestions, correctCount, currentStreak, loading,
                   error>>
    /\ UNCHANGED <<appVars, pageVars, waVars, mockVars, authVars, chatVars>>

qsResetSession ==
    /\ qsCurrentIndex' = 0
    /\ userAnswers' = <<>>
    /\ showAnswers' = <<>>
    /\ answerRecords' = <<>>
    /\ correctCount' = 0
    /\ currentStreak' = 0
    /\ error' = Null
    /\ UNCHANGED <<questions, qsTotalQuestions, loading>>
    /\ UNCHANGED <<appVars, pageVars, waVars, mockVars, authVars, chatVars>>

qsSetLoading(l) ==
    /\ loading' = l
    /\ UNCHANGED <<questions, qsCurrentIndex, userAnswers, showAnswers,
                   answerRecords, qsTotalQuestions, correctCount,
                   currentStreak, error>>
    /\ UNCHANGED <<appVars, pageVars, waVars, mockVars, authVars, chatVars>>

setError(e) ==
    /\ error' = e
    /\ UNCHANGED <<questions, qsCurrentIndex, userAnswers, showAnswers,
                   answerRecords, qsTotalQuestions, correctCount,
                   currentStreak, loading>>
    /\ UNCHANGED <<appVars, pageVars, waVars, mockVars, authVars, chatVars>>

\* questions[currentIndex] || null
\* correctCount / answerRecords.length as a fraction <<numerator,
\* denominator>>; 0 when no answer is recorded
getAccuracy ==
    IF Len(answerRecords) = 0 THEN <<0, 1>>
    ELSE <<correctCount, Len(answerRecords)>>

getCurrentQuestion ==
    IF qsCurrentIndex < Len(questions) THEN questions[qsCurrentIndex + 1]
    ELSE Null

(***************************************************************************)
(* useUserStore and MockDataService                                        *)
(***************************************************************************)
setUser(u) ==
    /\ user' = Some(u)
    /\ UNCHANGED <<mockUserProfile, rendered, calls, loader, pageIsLoading,
                   aiConversations>>
    /\ UNCHANGED <<appVars, qsVars, waVars, mockVars, authVars, chatVars>>

\* useUserStore.updateUser: if (!user) return; user = {...user, ...updates}
UpdatedUser(u, updates) ==
    IF u = None THEN u
    ELSE Some([f \in DOMAIN u[1] |->
                  IF f \in DOMAIN updates THEN updates[f] ELSE u[1][f]])

\* the synchronous tail of MockDataService.updateUserStats
UpdatedStats(profile, isCorrect) ==
    [totalQuestions |-> profile.totalQuestions + 1,
     correctAnswers |-> profile.correctAnswers + (IF isCorrect THEN 1 ELSE 0),
     currentStreak |-> IF isCorrect THEN profile.currentStreak + 1 ELSE 0,
     longestStreak |->
        IF isCorrect
        THEN Max(profile.longestStreak, profile.currentStreak + 1)
        ELSE profile.longestStreak,
     experience |-> profile.experience + (IF isCorrect THEN 10 ELSE 3)]

\* [...catalogue].sort(() => 0.5 - Math.random()): the sort returns the
\* elements of the array in an order the random comparator decides
Shuffles(catalogue) ==
    {[i \in 1..Len(catalogue) |-> catalogue[order[i]]] :
        order \in Permutations(1..Len(catalogue))}

\* Slice taking its end index as the last index kept
SliceInclusive(seq, count) ==
    LET end == IF count < 0
               THEN Max(Len(seq) + count + 1, 0)
               ELSE Min(count + 1, Len(seq))
    IN SubSeq(seq, 1, end)

\* seq.slice(0, count): a negative count is counted from the end of seq
Slice(seq, count) ==
    LET end == IF count < 0
               THEN Max(Len(seq) + count, 0)
               ELSE Min(count, Len(seq))
    IN SubSeq(seq, 1, end)

\* the array after a sort that put its own elements in the order shuffled
ArrayAfterSortInPlace(array, shuffled) == shuffled

\* the array after [...array].sort(...): the sort orders the copy, the array
\* keeps its elements and their order
ArrayAfterSort(array, shuffled) == array

\* shuffled.slice(0, count), for every order the shuffle can give
RecommendedFrom(catalogue, count) ==
    {Slice(shuffled, count) : shuffled \in Shuffles(catalogue)}

\* the questions of the batches the question page receives
RecommendedQuestions(count) == RecommendedFrom(<<"q1", "q2">>, count)

\* the fields of a recommendation that identify its question
Recommendation(id) == [question_id |-> id, question |-> id]

\* getRecommendedQuestions(count), to its await of the delay
getRecommendedQuestions(count) ==
    /\ recommendCount = None
    /\ recommendCount' = Some(count)
    /\ UNCHANGED <<recommendations, mockQuestions>>
    /\ UNCHANGED <<appVars, qsVars, pageVars, waVars, authVars, chatVars>>

\* getRecommendedQuestions after the delay: shuffle, slice, map
getRecommendedQuestionsReturn ==
    /\ recommendCount # None
    /\ \E shuffled \in Shuffles(mockQuestions) :
          LET batch == Slice(shuffled, recommendCount[1]) IN
          /\ mockQuestions' = ArrayAfterSort(mockQuestions, shuffled)
          /\ recommendations' =
                Some([count |-> recommendCount[1],
                      batch |-> [i \in 1..Len(batch) |->
                                    Recommendation(batch[i])]])
    /\ recommendCount' = None
    /\ UNCHANGED <<appVars, qsVars, pageVars, waVars, authVars, chatVars>>

(***************************************************************************)
(* The question page.  A handler runs to its first timer (the delay of the *)
(* mock service) in one step: until then nothing else can run.             *)
(***************************************************************************)
\* the currentQuestion of the last render
RenderedQuestion ==
    IF rendered.currentIndex < Len(rendered.questions)
    THEN rendered.questions[rendered.currentIndex + 1]
    ELSE Null

Snapshot ==
    [questions |-> questions, currentIndex |-> qsCurrentIndex,
     userAnswers |-> userAnswers, showAnswers |-> showAnswers, user |-> user]

render ==
    /\ rendered # Snapshot
    /\ rendered' = Snapshot
    /\ UNCHANGED <<user, mockUserProfile, calls, loader, pageIsLoading,
                   aiConversations>>
    /\ UNCHANGED <<appVars, qsVars, waVars, mockVars, authVars, chatVars>>

\* useLoad, or the reload button of the page without a question
initQuestions ==
    /\ loader.pc = "idle"
    /\ RenderedQuestion = Null
    /\ pageIsLoading' = TRUE
    /\ loader' = [pc |-> "init", questions |-> <<>>]
    /\ UNCHANGED <<user, mockUserProfile, rendered, calls, aiConversations>>
    /\ UNCHANGED <<appVars, qsVars, waVars, mockVars, authVars, chatVars>>

\* initQuestions after await getRecommendedQuestions(10): setQuestions
initQuestionsLoaded(qs) ==
    /\ loader.pc = "init"
    /\ questions' = qs
    /\ qsTotalQuestions' = Len(qs)
    /\ qsCurrentIndex' = 0
    /\ userAnswers' = <<>>
    /\ showAnswers' = <<>>
    /\ correctCount' = 0
    /\ currentStreak' = 0
    /\ pageIsLoading' = FALSE
    /\ loader' = [pc |-> "idle", questions |-> <<>>]
    /\ UNCHANGED <<answerRecords, loading, error>>
    /\ UNCHANGED <<user, mockUserProfile, rendered, calls, aiConversations>>
    /\ UNCHANGED <<appVars, waVars, mockVars, authVars, chatVars>>

\* a tap on an option: the onClick of the last render, then selectAnswer up to
\* the delay inside updateUserStats: addUserAnswer, showAnswer,
\* generateAIExplanation
selectAnswer(c, answer, responseTime) ==
    /\ calls[c].pc = "idle"
    /\ RenderedQuestion # Null
    /\ RenderedQuestion \notin DOMAIN rendered.userAnswers
    /\ LET current == getCurrentQuestion IN
       IF current = Null \/ current \in DOMAIN rendered.userAnswers
       THEN UNCHANGED <<userAnswers, answerRecords, correctCount,
                        currentStreak, showAnswers, aiConversations, calls>>
       ELSE LET question == Question(current)
                isCorrect == answer = question.correctAnswer
            IN /\ userAnswers' = PutKey(userAnswers, current, answer)
               /\ answerRecords' =
                     Append(answerRecords,
                            QsAnswerRecord(question, answer, responseTime))
               /\ correctCount' = NewCorrectCount(isCorrect, correctCount)
               /\ currentStreak' = NewCurrentStreak(isCorrect, currentStreak)
               /\ showAnswers' = PutKey(showAnswers, current, TRUE)
               /\ aiConversations' = PutKey(aiConversations, current, answer)
               /\ calls' = [calls EXCEPT ![c] =
                               [pc |-> "stats", questionId |-> current,
                                isCorrect |-> isCorrect,
                                responseTime |-> responseTime,
                                user |-> rendered.user]]
    /\ UNCHANGED <<questions, qsCurrentIndex, qsTotalQuestions, loading, error>>
    /\ UNCHANGED <<user, mockUserProfile, rendered, loader, pageIsLoading>>
    /\ UNCHANGED <<appVars, waVars, mockVars, authVars, chatVars>>

\* selectAnswer after the delay of updateUserStats: the mock profile, then
\* updateUser from the user its render closed over
selectAnswerStats(c) ==
    /\ calls[c].pc = "stats"
    /\ mockUserProfile' = UpdatedStats(mockUserProfile, calls[c].isCorrect)
    /\ LET currentUser == calls[c].user IN
       IF currentUser = None THEN UNCHANGED user
       ELSE user' = UpdatedUser(user,
                       [totalQuestions |-> currentUser[1].totalQuestions + 1,
                        correctAnswers |-> currentUser[1].correctAnswers
                            + (IF calls[c].isCorrect THEN 1 ELSE 0)])
    /\ calls' = [calls EXCEPT ![c] = IdleCall]
    /\ UNCHANGED <<rendered, loader, pageIsLoading, aiConversations>>
    /\ UNCHANGED <<appVars, qsVars, waVars, mockVars, authVars, chatVars>>

\* a swipe to the left after the answer is shown: handleTouchEnd, then
\* nextQuestionHandler up to the await in loadMoreQuestions
nextQuestionHandler ==
    /\ getCurrentQuestion # Null
    /\ RenderedQuestion # Null
    /\ RenderedQuestion \in DOMAIN rendered.showAnswers
    /\ IF rendered.currentIndex < Len(rendered.questions) - 1
       THEN /\ IF qsCurrentIndex < Len(questions) - 1
               THEN qsCurrentIndex' = qsCurrentIndex + 1
               ELSE UNCHANGED qsCurrentIndex
            /\ UNCHANGED <<loader, pageIsLoading>>
       ELSE /\ loader.pc = "idle"
            /\ Len(rendered.questions) <= MaxPageQuestions
            /\ pageIsLoading' = TRUE
            /\ loader' = [pc |-> "more", questions |-> rendered.questions]
            /\ UNCHANGED qsCurrentIndex
    /\ UNCHANGED <<questions, userAnswers, showAnswers, answerRecords,
                   qsTotalQuestions, correctCount, currentStreak, loading,
                   error>>
    /\ UNCHANGED <<user, mockUserProfile, rendered, calls, aiConversations>>
    /\ UNCHANGED <<appVars, waVars, mockVars, authVars, chatVars>>

\* loadMoreQuestions after await getRecommendedQuestions(5): setQuestions of
\* the list its render closed over and the new questions, then nextQuestion
loadMoreQuestionsLoaded(qs) ==
    /\ loader.pc = "more"
    /\ LET allQuestions == loader.questions \o qs IN
       /\ questions' = allQuestions
       /\ qsTotalQuestions' = Len(allQuestions)
       /\ qsCurrentIndex' = IF 0 < Len(allQuestions) - 1 THEN 1 ELSE 0
    /\ userAnswers' = <<>>
    /\ showAnswers' = <<>>
    /\ correctCount' = 0
    /\ currentStreak' = 0
    /\ pageIsLoading' = FALSE
    /\ loader' = [pc |-> "idle", questions |-> <<>>]
    /\ UNCHANGED <<answerRecords, loading, error>>
    /\ UNCHANGED <<user, mockUserProfile, rendered, calls, aiConversations>>
    /\ UNCHANGED <<appVars, waVars, mockVars, authVars, chatVars>>

(***************************************************************************)
(* The wrong-answers page.  React runs a pending effect before it handles   *)
(* the next event of the page, so the handlers wait for the effect.        *)
(***************************************************************************)
\* useEffect(() => setWrongQuestions(getWrongQuestions()), [answerHistory])
wrongAnswersEffect ==
    /\ effectHistory # Some(answerHistory)
    /\ wrongQuestions' = getWrongQuestions
    /\ effectHistory' = Some(answerHistory)
    /\ UNCHANGED <<waCurrentIndex, showExplanation>>
    /\ UNCHANGED <<appVars, qsVars, pageVars, mockVars, authVars, chatVars>>

\* the page shows a question: the effect has run, the list is not empty and
\* currentIndex points into it
ShowsQuestion ==
    /\ effectHistory = Some(answerHistory)
    /\ waCurrentIndex < Len(wrongQuestions)

\* wrongQuestions.filter((_, index) => index !== currentIndex)
WithoutIndex(list, index) ==
    SubSeq(list, 1, index) \o SubSeq(list, index + 2, Len(list))

handleAnswer(answer) ==
    /\ ShowsQuestion
    /\ LET reviewed == Question(wrongQuestions[waCurrentIndex + 1])
           updatedWrong == WithoutIndex(wrongQuestions, waCurrentIndex)
       IN IF answer = reviewed.correctAnswer
          THEN /\ wrongQuestions' = updatedWrong
               /\ waCurrentIndex' =
                     IF waCurrentIndex >= Len(updatedWrong)
                            /\ Len(updatedWrong) > 0
                     THEN Len(updatedWrong) - 1
                     ELSE waCurrentIndex
               /\ UNCHANGED showExplanation
          ELSE /\ showExplanation' = TRUE
               /\ UNCHANGED <<wrongQuestions, waCurrentIndex>>
    /\ UNCHANGED effectHistory
    /\ UNCHANGED <<appVars, qsVars, pageVars, mockVars, authVars, chatVars>>

waNextQuestion ==
    /\ ShowsQuestion
    /\ waCurrentIndex < Len(wrongQuestions) - 1
    /\ waCurrentIndex' = waCurrentIndex + 1
    /\ showExplanation' = FALSE
    /\ UNCHANGED <<wrongQuestions, effectHistory>>
    /\ UNCHANGED <<appVars, qsVars, pageVars, mockVars, authVars, chatVars>>

prevQuestion ==
    /\ ShowsQuestion
    /\ waCurrentIndex > 0
    /\ waCurrentIndex' = waCurrentIndex - 1
    /\ showExplanation' = FALSE
    /\ UNCHANGED <<wrongQuestions, effectHistory>>
    /\ UNCHANGED <<appVars, qsVars, pageVars, mockVars, authVars, chatVars>>

\* onClick={() => setShowExplanation(!showExplanation)}
toggleExplanation ==
    /\ effectHistory = Some(answerHistory)
    /\ wrongQuestions # <<>>
    /\ showExplanation' = ~showExplanation
    /\ UNCHANGED <<wrongQuestions, waCurrentIndex, effectHistory>>
    /\ UNCHANGED <<appVars, qsVars, pageVars, mockVars, authVars, chatVars>>

\* clearWrongAnswers(); setWrongQuestions([]); setCurrentIndex(0)
handleClearAll ==
    /\ effectHistory = Some(answerHistory)
    /\ wrongQuestions # <<>>
    /\ answerHistory' = ClearedHistory(answerHistory)
    /\ wrongQuestions' = <<>>
    /\ waCurrentIndex' = 0
    /\ UNCHANGED <<currentQuestion, questionQueue, currentIndex, isLoading,
                   userProfile, streak, sessionQuestions, sessionCorrect,
                   showResult, lastAnswer>>
    /\ UNCHANGED <<showExplanation, effectHistory>>
    /\ UNCHANGED <<qsVars, pageVars, mockVars, authVars, chatVars>>

(***************************************************************************)
(* HttpClient and AuthService.  One request is in flight at a time; the     *)
(* loading indicator and the toast of HttpClient are not represented.  An  *)
(* error object is the pair of what the catch block reads from it: whether *)
(* errMsg names a timeout, and statusCode (0 when the object has none).    *)
(***************************************************************************)
\* new Error(`HTTP ${response.statusCode}: ...`): an Error has a message and
\* neither errMsg nor statusCode
ResponseError(statusCode) == [timeout |-> FALSE, statusCode |-> 0]

\* the catch block of request: what the call gives for a caught error
CaughtResult(caught) ==
    IF caught.timeout THEN "timeout"
    ELSE IF caught.statusCode = 401 THEN "expired"
    ELSE "throws"

\* request after Taro.request resolved with statusCode
ResponseResult(statusCode) ==
    IF statusCode >= 400 THEN CaughtResult(ResponseError(statusCode))
    ELSE "success"

\* Taro.removeStorageSync('auth_token') in the 401 branch of the catch block
StorageAfterResult(store, result) ==
    IF result = "expired" THEN [store EXCEPT !["auth_token"] = Null]
    ELSE store

\* ClearedTokens removing the access token only
ClearedTokensAuthOnly(store) == [store EXCEPT !["auth_token"] = Null]

\* clearTokens: removeStorageSync of the three keys
ClearedTokens(store) == [key \in StorageKeys |-> Null]

\* saveToken: setStorageSync of the three keys
SavedToken(store) ==
    [key \in StorageKeys |->
        IF key = "auth_token" THEN "access1"
        ELSE IF key = "refresh_token" THEN "refresh1"
        ELSE "expiry1"]

\* the caller of httpClient after its await: the storage it leaves and
\* whether it returns or throws.  hasData is the truth of response.data.
AfterAwait(caller, result, hasData, store) ==
    LET ok == result = "success" /\ hasData IN
    IF caller = "guestLogin"
    THEN IF ok THEN [storage |-> SavedToken(store), outcome |-> "returned"]
         ELSE [storage |-> store, outcome |-> "threw"]
    ELSE IF caller = "refreshToken"
    THEN IF ok
         THEN [storage |-> [store EXCEPT !["auth_token"] = "access2"],
               outcome |-> "returned"]
         ELSE [storage |-> ClearedTokens(store), outcome |-> "threw"]
    ELSE IF caller = "logout"
    THEN [storage |-> ClearedTokens(store), outcome |-> "returned"]
    ELSE [storage |-> store,
          outcome |-> IF result \in {"success", "expired"} THEN "returned"
                      ELSE "threw"]

\* request up to its await of Taro.request, for the caller that sent it
SentHttpCall(caller, method) ==
    [pc |-> "sent", caller |-> caller, method |-> method,
     authorized |-> (storage["auth_token"] # Null),
     statusCode |-> 0, result |-> "none", outcome |-> "none"]

\* httpClient.get / post / put / delete called by a page
request(method) ==
    /\ httpCall.pc # "sent"
    /\ httpCall' = SentHttpCall("request", method)
    /\ UNCHANGED storage
    /\ UNCHANGED <<appVars, qsVars, pageVars, waVars, mockVars, chatVars>>

guestLogin ==
    /\ httpCall.pc # "sent"
    /\ httpCall' = SentHttpCall("guestLogin", "POST")
    /\ UNCHANGED storage
    /\ UNCHANGED <<appVars, qsVars, pageVars, waVars, mockVars, chatVars>>

\* without a refresh token the method throws before any request and its
\* catch block clears the tokens
refreshToken ==
    /\ httpCall.pc # "sent"
    /\ IF storage["refresh_token"] = Null
       THEN /\ storage' = ClearedTokens(storage)
            /\ httpCall' = [IdleHttpCall EXCEPT !.pc = "done",
                                                !.caller = "refreshToken",
                                                !.outcome = "threw"]
       ELSE /\ httpCall' = SentHttpCall("refreshToken", "POST")
            /\ UNCHANGED storage
    /\ UNCHANGED <<appVars, qsVars, pageVars, waVars, mockVars, chatVars>>

logout ==
    /\ httpCall.pc # "sent"
    /\ httpCall' = SentHttpCall("logout", "POST")
    /\ UNCHANGED storage
    /\ UNCHANGED <<appVars, qsVars, pageVars, waVars, mockVars, chatVars>>

\* the request settles with result: the catch block of request, then the
\* caller after its await
Settle(statusCode, result, hasData) ==
    LET after == AfterAwait(httpCall.caller, result, hasData,
                            StorageAfterResult(storage, result))
    IN /\ storage' = after.storage
       /\ httpCall' = [httpCall EXCEPT !.pc = "done",
                                       !.statusCode = statusCode,
                                       !.result = result,
                                       !.outcome = after.outcome]

\* Taro.request resolves with a response
requestResponse(statusCode, hasData) ==
    /\ httpCall.pc = "sent"
    /\ Settle(statusCode, ResponseResult(statusCode), hasData)
    /\ UNCHANGED <<appVars, qsVars, pageVars, waVars, mockVars, chatVars>>

\* Taro.request rejects with an error object
requestRejected(caught) ==
    /\ httpCall.pc = "sent"
    /\ Settle(0, CaughtResult(caught), FALSE)
    /\ UNCHANGED <<appVars, qsVars, pageVars, waVars, mockVars, chatVars>>

\* !!Taro.getStorageSync('auth_token')
isLoggedIn == storage["auth_token"] # Null

(***************************************************************************)
(* AIChat over useAIStore and aiConversationService.  A session id is the   *)
(* number of the session (the source draws a fresh string per session); a  *)
(* message is its type.                                                    *)
(***************************************************************************)
RemoveKey(map, key) == [k \in (DOMAIN map) \ {key} |-> map[k]]

\* map[key] || []
GetOrEmpty(map, key) == IF key \in DOMAIN map THEN map[key] ELSE <<>>

\* useAIStore.addMessage
AddMessage(convs, id, type) ==
    PutKey(convs, id, Append(GetOrEmpty(convs, id), type))

\* the effect of AIChat once the chat is visible without a session:
\* startNewSession, the welcome message, addMessage
chatOpen ==
    /\ sessionId = None
    /\ sessionsStarted < MaxSessions
    /\ LET newSessionId == sessionsStarted + 1 IN
       /\ sessionsStarted' = newSessionId
       /\ currentSessionId' = Some(newSessionId)
       /\ conversations' =
             AddMessage(PutKey(conversations, newSessionId, <<>>),
                        newSessionId, "assistant")
       /\ sessionId' = Some(newSessionId)
    /\ messages' = <<"assistant">>
    /\ UNCHANGED <<chatIsLoading, inputText, isTyping, conversationHistory,
                   chatCall>>
    /\ UNCHANGED <<appVars, qsVars, pageVars, waVars, mockVars, authVars>>

\* AIChat.sendMessage to its await of aiConversationService.sendMessage,
\* which waits for its delay
\* the input field, a suggestion or a topic: setInputText
setInputText(text) ==
    /\ sessionId # None
    /\ inputText' = text
    /\ UNCHANGED <<sessionId, messages, chatIsLoading, conversations,
                   currentSessionId, isTyping, conversationHistory,
                   sessionsStarted, chatCall>>
    /\ UNCHANGED <<appVars, qsVars, pageVars, waVars, mockVars, authVars>>

\* if (!inputText.trim() || !sessionId || isLoading) return
sendMessageIgnored ==
    /\ inputText \in {"", " "} \/ sessionId = None \/ chatIsLoading
    /\ UNCHANGED vars

sendMessage ==
    /\ inputText \notin {"", " "}
    /\ sessionId # None
    /\ ~chatIsLoading
    /\ Len(GetOrEmpty(conversations, sessionId[1])) < MaxChatMessages
    /\ messages' = Append(messages, "user")
    /\ conversations' = AddMessage(conversations, sessionId[1], "user")
    /\ inputText' = ""
    /\ chatIsLoading' = TRUE
    /\ isTyping' = TRUE
    /\ chatCall' = Some(sessionId[1])
    /\ UNCHANGED <<sessionId, currentSessionId, conversationHistory,
                   sessionsStarted>>
    /\ UNCHANGED <<appVars, qsVars, pageVars, waVars, mockVars, authVars>>

\* after the delay: aiConversationService.sendMessage records the exchange
\* and returns, AIChat.sendMessage adds the reply and runs its finally block
sendMessageReply ==
    /\ chatCall # None
    /\ LET id == chatCall[1] IN
       /\ conversationHistory' =
             PutKey(conversationHistory, id,
                    GetOrEmpty(conversationHistory, id)
                        \o <<"user", "assistant">>)
       /\ conversations' = AddMessage(conversations, id, "assistant")
    /\ messages' = Append(messages, "assistant")
    /\ chatIsLoading' = FALSE
    /\ isTyping' = FALSE
    /\ chatCall' = None
    /\ UNCHANGED <<sessionId, inputText, currentSessionId, sessionsStarted>>
    /\ UNCHANGED <<appVars, qsVars, pageVars, waVars, mockVars, authVars>>

\* clearSession, clearConversation, setMessages([]), setSessionId(null)
handleClose ==
    /\ sessionId # None
    /\ conversationHistory' = RemoveKey(conversationHistory, sessionId[1])
    /\ conversations' = RemoveKey(conversations, sessionId[1])
    /\ currentSessionId' =
          IF currentSessionId = sessionId THEN None ELSE currentSessionId
    /\ messages' = <<>>
    /\ sessionId' = None
    /\ inputText' = ""
    /\ UNCHANGED <<chatIsLoading, isTyping, sessionsStarted, chatCall>>
    /\ UNCHANGED <<appVars, qsVars, pageVars, waVars, mockVars, authVars>>

(***************************************************************************)
(* Inputs of the actions.                                                  *)
(***************************************************************************)
Queues == {<<>>, <<"q1", "q2">>}

ResponseTimes == {100}

\* the lists handed to useQuestionStore.setQuestions
QuestionLists == {<<>>, <<"q1", "q2">>}

\* the ids handed to addUserAnswer; "q9" is the id of no question
AnswerIds == QuestionIds \cup {"q9"}

\* what the input field of the chat can hold: nothing, blanks, a question
InputTexts == {"", " ", "why"}

HttpMethods == {"GET", "POST", "PUT", "DELETE"}

StatusCodes == {200, 401, 500}

\* what Taro.request rejects with: a timeout, a failed connection, and an
\* error object that carries statusCode 401
Rejections ==
    {[timeout |-> TRUE, statusCode |-> 0],
     [timeout |-> FALSE, statusCode |-> 0],
     [timeout |-> FALSE, statusCode |-> 401]}

\* the counts asked of getRecommendedQuestions in SpecSelect
SelectCounts == {0, 2}

\* the lists a page loads into useQuestionStore
LoadedLists == {<<"q1">>, <<"q1", "q2">>}

\* response times in milliseconds, a negative one included
Latencies == {-1, 100}

IndexInputs == {-1, 0, 1, 2}

\* the users handed to useUserStore.setUser
Users == {[totalQuestions |-> 0, correctAnswers |-> 0]}

ProfileUpdates ==
    {[longestStreak |-> 0], [streak |-> 2],
     [masteryMatrix |-> [k \in {"K1"} |-> 100]]}

\* the cap on the answers recorded, counted on every counter an answer raises
CanAnswer ==
    /\ Len(answerHistory) < MaxAnswers
    /\ userProfile.totalQuestions < MaxAnswers
    /\ sessionQuestions < MaxAnswers

\* useAppStore without updateUserProfile
Next ==
    \/ \E q \in QuestionIds \cup {Null} : setCurrentQuestion(q)
    \/ \E qs \in Queues : setQuestionQueue(qs)
    \/ nextQuestion
    \/ CanAnswer /\ \E a \in Options, t \in ResponseTimes : submitAnswer(a, t)
    \/ submitAnswerNoQuestion
    \/ resetSession
    \/ \E l \in BOOLEAN : setLoading(l)
    \/ clearWrongAnswers
    \/ \E q \in QuestionIds : markQuestionAsMastered(q)

Spec == Init /\ [][Next]_vars


\* useAppStore with updateUserProfile, under its own cap on the answers
CanAnswerProfile ==
    /\ Len(answerHistory) < MaxProfileAnswers
    /\ userProfile.totalQuestions < MaxProfileAnswers
    /\ sessionQuestions < MaxProfileAnswers

NextProfile ==
    \/ \E q \in QuestionIds \cup {Null} : setCurrentQuestion(q)
    \/ \E qs \in Queues : setQuestionQueue(qs)
    \/ nextQuestion
    \/ CanAnswerProfile
         /\ \E a \in Options, t \in ResponseTimes : submitAnswer(a, t)
    \/ resetSession
    \/ \E l \in BOOLEAN : setLoading(l)
    \/ clearWrongAnswers
    \/ \E q \in QuestionIds : markQuestionAsMastered(q)
    \/ \E u \in ProfileUpdates : updateUserProfile(u)

SpecProfile == Init /\ [][NextProfile]_vars

\* answers only: short histories over both questions, long ones on one question
CanDrill ==
    \/ Len(answerHistory) < MaxMixed
    \/ /\ Len(answerHistory) < MaxDrill
       /\ \A i \in 1..Len(answerHistory) :
             answerHistory[i].questionId = currentQuestion

NextMastery ==
    \/ \E q \in QuestionIds : setCurrentQuestion(q)
    \/ CanDrill /\ \E a \in Options, t \in ResponseTimes : submitAnswer(a, t)

SpecMastery == Init /\ [][NextMastery]_vars

\* the recording actions of both stores, under one cap on the answers
CanRecord == Len(answerHistory) + Len(answerRecords) < MaxStreakAnswers

NextStreak ==
    \/ \E q \in QuestionIds : setCurrentQuestion(q)
    \/ CanRecord /\ \E a \in Options, t \in ResponseTimes : submitAnswer(a, t)
    \/ \E qs \in QuestionLists : qsSetQuestions(qs)
    \/ CanRecord
         /\ \E q \in QuestionIds, a \in Options, t \in ResponseTimes :
               addUserAnswer(q, a, t)

SpecStreak == Init /\ [][NextStreak]_vars

\* useQuestionStore
NextQs ==
    \/ \E qs \in QuestionLists : qsSetQuestions(qs)
    \/ \E i \in IndexInputs : setCurrentIndex(i)
    \/ Len(answerRecords) < MaxRecords
         /\ \E q \in AnswerIds, a \in Options, t \in ResponseTimes :
               addUserAnswer(q, a, t)
    \/ \E q \in QuestionIds : showAnswer(q)
    \/ qsNextQuestion
    \/ previousQuestion
    \/ qsResetSession
    \/ \E l \in BOOLEAN : qsSetLoading(l)
    \/ \E e \in {Null, "failed"} : setError(e)

SpecQs == Init /\ [][NextQs]_vars

\* the question page over useQuestionStore and useUserStore
NextPage ==
    \/ \E u \in Users : setUser(u)
    \/ initQuestions
    \/ \E qs \in RecommendedQuestions(10) : initQuestionsLoaded(qs)
    \/ Len(answerRecords) < MaxPageAnswers
         /\ \E c \in 1..MaxCalls, a \in Options, t \in ResponseTimes :
               selectAnswer(c, a, t)
    \/ \E c \in 1..MaxCalls : selectAnswerStats(c)
    \/ nextQuestionHandler
    \/ \E qs \in RecommendedQuestions(5) : loadMoreQuestionsLoaded(qs)
    \/ render

SpecPage == Init /\ [][NextPage]_vars

\* the recording actions of both stores, with calls they reject: no current
\* question, an id that useQuestionStore.questions does not hold.  The
\* questions are loaded once.
NextReject ==
    \/ \E q \in QuestionIds \cup {Null} : setCurrentQuestion(q)
    \/ Len(answerHistory) < MaxRejectAnswers
         /\ \E a \in Options, t \in ResponseTimes : submitAnswer(a, t)
    \/ submitAnswerNoQuestion
    \/ questions = <<>> /\ \E qs \in LoadedLists : qsSetQuestions(qs)
    \/ Len(answerRecords) < MaxRejectAnswers
         /\ \E q \in AnswerIds, a \in Options, t \in ResponseTimes :
               addUserAnswer(q, a, t)

SpecReject == Init /\ [][NextReject]_vars

\* the recording actions of both stores with the response times a caller can
\* pass
NextLatency ==
    \/ \E q \in QuestionIds : setCurrentQuestion(q)
    \/ Len(answerHistory) < MaxLatencyAnswers
         /\ \E a \in Options, t \in Latencies : submitAnswer(a, t)
    \/ \E qs \in LoadedLists : qsSetQuestions(qs)
    \/ Len(answerRecords) < MaxLatencyAnswers
         /\ \E q \in QuestionIds, a \in Options, t \in Latencies :
               addUserAnswer(q, a, t)

SpecLatency == Init /\ [][NextLatency]_vars

\* the queue of useAppStore: the actions that move through questionQueue
NextQueue ==
    \/ \E qs \in Queues : setQuestionQueue(qs)
    \/ nextQuestion
    \/ Len(answerHistory) < MaxQueueAnswers
         /\ sessionQuestions < MaxQueueAnswers
         /\ \E a \in Options, t \in ResponseTimes : submitAnswer(a, t)
    \/ resetSession

SpecQueue == Init /\ [][NextQueue]_vars

\* HttpClient and AuthService
NextAuth ==
    \/ \E method \in HttpMethods : request(method)
    \/ guestLogin
    \/ refreshToken
    \/ logout
    \/ \E statusCode \in StatusCodes, hasData \in BOOLEAN :
          requestResponse(statusCode, hasData)
    \/ \E caught \in Rejections : requestRejected(caught)

SpecAuth == Init /\ [][NextAuth]_vars

\* the AI chat
NextChat ==
    \/ chatOpen
    \/ \E text \in InputTexts : setInputText(text)
    \/ sendMessageIgnored
    \/ sendMessage
    \/ sendMessageReply
    \/ handleClose

SpecChat == Init /\ [][NextChat]_vars

\* the ledger of useAppStore with the two actions that remove records
NextMastered ==
    \/ \E q \in QuestionIds : setCurrentQuestion(q)
    \/ userProfile.totalQuestions < MaxMasteredAnswers
         /\ \E a \in Options, t \in ResponseTimes : submitAnswer(a, t)
    \/ clearWrongAnswers
    \/ \E q \in QuestionIds : markQuestionAsMastered(q)

SpecMastered == Init /\ [][NextMastered]_vars

\* the wrong-answers page over useAppStore: answers recorded elsewhere are
\* its store updates
NextWrong ==
    \/ \E q \in QuestionIds : setCurrentQuestion(q)
    \/ Len(answerHistory) < MaxReviewAnswers
         /\ userProfile.totalQuestions < MaxReviewAnswers
         /\ sessionQuestions < MaxReviewAnswers
         /\ \E a \in Options, t \in ResponseTimes : submitAnswer(a, t)
    \/ wrongAnswersEffect
    \/ \E a \in Options : handleAnswer(a)
    \/ waNextQuestion
    \/ prevQuestion
    \/ toggleExplanation
    \/ handleClearAll

SpecWrong == Init /\ [][NextWrong]_vars

\* MockDataService.getRecommendedQuestions over MOCK_QUESTIONS
NextRecommend ==
    \/ \E count \in 0..MaxCount : getRecommendedQuestions(count)
    \/ getRecommendedQuestionsReturn

SpecRecommend == Init /\ [][NextRecommend]_vars

\* getRecommendedQuestions beside the stores that record answers
NextSelect ==
    \/ \E q \in QuestionIds : setCurrentQuestion(q)
    \/ userProfile.totalQuestions < MaxSelectAnswers
         /\ \E a \in Options, t \in ResponseTimes : submitAnswer(a, t)
    \/ questions = <<>> /\ \E qs \in LoadedLists : qsSetQuestions(qs)
    \/ Len(answerRecords) < MaxSelectAnswers
         /\ \E q \in QuestionIds, a \in Options, t \in ResponseTimes :
               addUserAnswer(q, a, t)
    \/ \E count \in SelectCounts : getRecommendedQuestions(count)
    \/ getRecommendedQuestionsReturn

SpecSelect == Init /\ [][NextSelect]_vars

(***************************************************************************)
(* Properties.                                                             *)
(***************************************************************************)
Last(seq) == seq[Len(seq)]

InSeq(x, seq) == \E i \in 1..Len(seq) : seq[i] = x

\* the latest record of question q in history is a wrong answer
LatestIsWrong(history, q) ==
    \E i \in 1..Len(history) :
        /\ history[i].questionId = q
        /\ ~history[i].isCorrect
        /\ \A j \in (i + 1)..Len(history) : history[j].questionId # q

\* no answer was recorded before the current session and no record was removed
FreshSession ==
    /\ sessionQuestions = Len(answerHistory)
    /\ userProfile.totalQuestions = Len(answerHistory)

FreshProfile ==
    [masteryMatrix |-> <<>>, totalQuestions |-> 0, correctAnswers |-> 0,
     streak |-> 0, longestStreak |-> 0]

\* the profile obtained by recording the answers of history, in order, into
\* profile with streak s
RECURSIVE Replay(_, _, _)
Replay(history, profile, s) ==
    IF history = <<>> THEN profile
    ELSE LET r == Head(history) IN
         Replay(Tail(history),
                ProfileAfter(profile, s, Question(r.questionId), r.isCorrect),
                NewStreak(r.isCorrect, s))

\* C1: a question is listed by getWrongQuestions() if and only if the most
\* recent record of answerHistory for that question is incorrect.
ReviewFollowsLatest ==
    \A q \in QuestionIds :
        InSeq(q, getWrongQuestions) <=> LatestIsWrong(answerHistory, q)

\* C2: within one session answerHistory holds at most one record per question:
\* a second submitAnswer on the same question does not grow the ledger.
OneRecordPerQuestion ==
    FreshSession =>
        \A i, j \in 1..Len(answerHistory) :
            answerHistory[i].questionId = answerHistory[j].questionId => i = j

\* C3: every score stored in userProfile.masteryMatrix lies in [0, 1]
\* (0..100 in hundredths).
MasteryBounds ==
    \A k \in DOMAIN userProfile.masteryMatrix :
        /\ userProfile.masteryMatrix[k] >= 0
        /\ userProfile.masteryMatrix[k] <= 100

\* a seventh correct answer in a row on a knowledge point already at 1.0
MasteryAtCeiling ==
    /\ Len(answerHistory) >= 7
    /\ \A i \in 1..Len(answerHistory) : answerHistory[i].isCorrect
    /\ userProfile.masteryMatrix["K1"] = 100

\* C4: every recorded answer sets, for each knowledge point of its question,
\* newScore = clamp(oldScore + 0.10 if correct else oldScore - 0.05, 0, 1),
\* oldScore being the stored score (a stored 0 included) and 0.5 only when the
\* knowledge point has no stored score.
MasteryUpdateRule ==
    [][Len(answerHistory') = Len(answerHistory) + 1 =>
        LET r == Last(answerHistory')
            points == Question(r.questionId).knowledgePoints
            old == userProfile.masteryMatrix
            oldScore(k) == IF k \in DOMAIN old THEN old[k] ELSE 50
            delta == IF r.isCorrect THEN 10 ELSE -5
        IN \A i \in 1..Len(points) :
              userProfile'.masteryMatrix[points[i]] =
                  Max(0, Min(100, oldScore(points[i]) + delta))]_vars

\* C5: totalQuestions, correctAnswers, streak, longestStreak and masteryMatrix
\* of userProfile equal the replay of answerHistory into a fresh profile.
ReplayConsistency == userProfile = Replay(answerHistory, FreshProfile, 0)

\* C6: a recorded answer sets the streak to 0 when it is incorrect and to the
\* previous streak plus 1 when it is correct, in useAppStore (streak and
\* userProfile.streak) and in useQuestionStore (currentStreak).
StreakRule ==
    [][/\ Len(answerHistory') = Len(answerHistory) + 1 =>
            /\ streak' = IF Last(answerHistory').isCorrect THEN streak + 1 ELSE 0
            /\ userProfile'.streak = streak'
       /\ Len(answerRecords') = Len(answerRecords) + 1 =>
            currentStreak' =
                IF Last(answerRecords').isCorrect THEN currentStreak + 1 ELSE 0
      ]_vars

\* [correct, correct, incorrect, correct] recorded, ending with streak 1
StreakAfterReset ==
    /\ Len(answerHistory) = 4
    /\ answerHistory[1].isCorrect
    /\ answerHistory[2].isCorrect
    /\ ~answerHistory[3].isCorrect
    /\ answerHistory[4].isCorrect
    /\ streak = 1
    /\ userProfile.streak = 1

\* C7: userProfile.longestStreak never decreases and is never below the
\* current streak.
LongestStreakHighWater ==
    [][/\ userProfile'.longestStreak >= userProfile.longestStreak
       /\ userProfile'.longestStreak >= userProfile'.streak]_vars

CountCorrect(records) == Len(SelectSeq(records, IsCorrectRecord))

\* the length of the run of correct records that ends records
RECURSIVE TrailingCorrect(_)
TrailingCorrect(records) ==
    IF records = <<>> \/ ~Last(records).isCorrect THEN 0
    ELSE 1 + TrailingCorrect(SubSeq(records, 1, Len(records) - 1))

\* C8: correctCount is the number of correct records of answerRecords and
\* currentStreak the length of its trailing run of correct records.
CountersFollowRecords ==
    /\ correctCount = CountCorrect(answerRecords)
    /\ currentStreak = TrailingCorrect(answerRecords)

\* C10: userProfile.masteryMatrix changes only in a step that records an
\* answer.
MasteryOnlyOnAnswers ==
    [][\/ Len(answerHistory') = Len(answerHistory) + 1
       \/ userProfile'.masteryMatrix = userProfile.masteryMatrix]_vars

\* C9: while a call of selectAnswer for the current question is suspended at
\* its await, a second call appends no further answer record.
DoubleSubmitHarmless ==
    [][(\E c \in 1..MaxCalls :
           /\ calls[c].pc = "stats"
           /\ calls[c].questionId = getCurrentQuestion)
       => Len(answerRecords') <= Len(answerRecords)]_vars

IsPrefix(a, b) == Len(a) <= Len(b) /\ SubSeq(b, 1, Len(a)) = a

\* C11: in every step other than clearWrongAnswers the answerHistory before
\* the step is a prefix of the answerHistory after it.
LedgerAppendOnly ==
    [][\/ IsPrefix(answerHistory, answerHistory')
       \/ answerHistory' = SelectSeq(answerHistory, IsCorrectRecord)]_vars

\* a step that only clearWrongAnswers can have taken: it removes every wrong
\* record, and no markQuestionAsMastered(q) gives the same history
ClearStep ==
    /\ answerHistory' = SelectSeq(answerHistory, IsCorrectRecord)
    /\ \A q \in QuestionIds :
          answerHistory' #
              SelectSeq(answerHistory,
                        LAMBDA r : ~(r.questionId = q /\ ~r.isCorrect))

\* C12: clearWrongAnswers removes exactly the records of the questions whose
\* latest record is incorrect; the records of a question whose latest record
\* is correct are all retained.
ClearPurgesOnlyUnresolved ==
    [][ClearStep =>
          answerHistory' =
              SelectSeq(answerHistory,
                        LAMBDA r : ~LatestIsWrong(answerHistory, r.questionId))
      ]_vars

\* C13: after clearWrongAnswers a second clearWrongAnswers changes nothing,
\* getWrongQuestions() is empty, and a clearWrongAnswers without wrong
\* answers leaves answerHistory as it is.
ClearIdempotent ==
    [][answerHistory' = ClearedHistory(answerHistory) =>
          /\ ClearedHistory(answerHistory') = answerHistory'
          /\ GetWrongQuestionsOf(answerHistory') = <<>>
          /\ getWrongQuestions = <<>> => answerHistory' = answerHistory
      ]_vars

\* wrong answers were recorded and cleared: correct records only are left
ClearedWithWrongAnswers ==
    /\ answerHistory # <<>>
    /\ \A i \in 1..Len(answerHistory) : answerHistory[i].isCorrect
    /\ userProfile.totalQuestions >= Len(answerHistory) + 2
    /\ getWrongQuestions = <<>>

\* the step appends one correct record to answerHistory
CorrectAnswerStep ==
    /\ Len(answerHistory') = Len(answerHistory) + 1
    /\ SubSeq(answerHistory', 1, Len(answerHistory)) = answerHistory
    /\ Last(answerHistory').isCorrect

\* the first two answers of a new user: q1 wrong, then q2 right
WrongThenOtherCorrect ==
    /\ userProfile.totalQuestions = 2
    /\ Len(answerHistory) = 2
    /\ answerHistory[1].questionId = "q1" /\ ~answerHistory[1].isCorrect
    /\ answerHistory[2].questionId = "q2" /\ answerHistory[2].isCorrect

\* C14: a correct answer to one question never removes a different question
\* from getWrongQuestions(); after wrong(q1) then correct(q2), both tagged K1,
\* getWrongQuestions() is [q1] and the mastery of K1 is 0.55.
CorrectAnswerKeepsOthers ==
    /\ [](WrongThenOtherCorrect =>
            /\ getWrongQuestions = <<"q1">>
            /\ "K1" \in DOMAIN userProfile.masteryMatrix
            /\ userProfile.masteryMatrix["K1"] = 55)
    /\ [][CorrectAnswerStep =>
            \A q \in QuestionIds \ {Last(answerHistory').questionId} :
                InSeq(q, getWrongQuestions) =>
                    InSeq(q, GetWrongQuestionsOf(answerHistory'))]_vars

\* wrong(q1) then correct(q2) was played: both questions carry K1
SharedPointScenario ==
    /\ WrongThenOtherCorrect
    /\ "K1" \in DOMAIN userProfile.masteryMatrix
    /\ InSeq("K1", Question("q1").knowledgePoints)
    /\ InSeq("K1", Question("q2").knowledgePoints)

\* position in history of the latest wrong record of question q (0 if none)
LatestWrongIndex(history, q) ==
    LET missed == {i \in 1..Len(history) :
                      history[i].questionId = q /\ ~history[i].isCorrect}
    IN IF missed = {} THEN 0 ELSE CHOOSE i \in missed : \A j \in missed : j <= i

\* C15: getWrongQuestions() lists the questions most-recently-missed first:
\* ordered by the position of each question's latest wrong record, newest
\* first.
MostRecentlyMissedFirst ==
    \A i, j \in 1..Len(getWrongQuestions) :
        i < j =>
            LatestWrongIndex(answerHistory, getWrongQuestions[i])
                > LatestWrongIndex(answerHistory, getWrongQuestions[j])

\* C16: once the effect of the wrong-answers page has run for the current
\* answerHistory, the page's wrongQuestions list equals getWrongQuestions().
ReviewListFollowsLedger ==
    effectHistory = Some(answerHistory) => wrongQuestions = getWrongQuestions

\* C18: getRecommendedQuestions(count) returns min(count, size of the
\* catalogue) recommendations, each for a catalogue question, with pairwise
\* distinct question ids.
BatchSizeAndDistinct ==
    recommendations # None =>
        LET count == recommendations[1].count
            batch == recommendations[1].batch
        IN /\ Len(batch) = Min(count, Len(MOCK_QUESTIONS))
           /\ \A i \in 1..Len(batch) :
                 /\ InSeq(batch[i].question_id, MOCK_QUESTIONS)
                 /\ batch[i].question = batch[i].question_id
           /\ \A i, j \in 1..Len(batch) :
                 batch[i].question_id = batch[j].question_id => i = j

\* a call asked for more questions than the catalogue holds and returned
WholeCatalogueReturned ==
    /\ recommendations # None
    /\ recommendations[1].count > Len(MOCK_QUESTIONS)
    /\ Len(recommendations[1].batch) = Len(MOCK_QUESTIONS)

\* C17: a rejected recording changes nothing: with no currentQuestion no
\* step changes the ledger, the profile, the streak or the session counters
\* of useAppStore; in useQuestionStore a record is appended only for a
\* question of questions, and without an appended record userAnswers,
\* correctCount and currentStreak stay as they are.
RejectedRecordingChangesNothing ==
    [][/\ currentQuestion = Null =>
            UNCHANGED <<answerHistory, userProfile, streak, sessionQuestions,
                        sessionCorrect, showResult, lastAnswer>>
       /\ questions' = questions =>
            /\ answerRecords' # answerRecords =>
                  /\ IsPrefix(answerRecords, answerRecords')
                  /\ Len(answerRecords') = Len(answerRecords) + 1
                  /\ InSeq(Last(answerRecords').questionId, questions)
            /\ answerRecords' = answerRecords =>
                  UNCHANGED <<userAnswers, correctCount, currentStreak,
                              showAnswers, qsCurrentIndex, qsTotalQuestions>>
      ]_vars

\* both stores hold answers, and both reject a call: no currentQuestion, and
\* q2 is in the catalogue but not in questions
RejectingStores ==
    /\ currentQuestion = Null
    /\ answerHistory # <<>>
    /\ questions = <<"q1">>
    /\ answerRecords # <<>>
    /\ ~HasQuestion("q2")

\* C20: no record with a negative response time is in answerHistory or in
\* answerRecords: submitAnswer and addUserAnswer reject responseTime < 0.
NoNegativeLatency ==
    /\ \A i \in 1..Len(answerHistory) : answerHistory[i].responseTime >= 0
    /\ \A i \in 1..Len(answerRecords) : answerRecords[i].responseTime >= 0

\* question q has a correct record among the last n records
AnsweredCorrectlyWithin(records, n, q) ==
    \E i \in 1..Len(records) :
        /\ i > Len(records) - n
        /\ records[i].questionId = q
        /\ records[i].isCorrect

\* question q has a wrong record: it is in review by the code's reading and by
\* the latest-record reading
HasWrongRecord(records, q) ==
    \E i \in 1..Len(records) : records[i].questionId = q /\ ~records[i].isCorrect

\* C19: a batch handed to the question page by initQuestions or
\* loadMoreQuestions holds no question whose correct answer is the last
\* recorded answer (excludeRecentN = 1), unless the question is in review.
RecentCorrectExcluded ==
    [][loader.pc \in {"init", "more"} /\ loader'.pc = "idle" =>
          LET batch == SubSeq(questions', Len(loader.questions) + 1,
                              Len(questions'))
          IN \A i \in 1..Len(batch) :
                AnsweredCorrectlyWithin(answerRecords, 1, batch[i]) =>
                    HasWrongRecord(answerRecords, batch[i])
      ]_vars

\* C24: currentQuestion is questionQueue[currentIndex], or null when the
\* queue is empty, and currentIndex never passes questionQueue.length - 1.
QueueCursorConsistent ==
    /\ currentQuestion =
          IF currentIndex < Len(questionQueue)
          THEN questionQueue[currentIndex + 1]
          ELSE Null
    /\ currentIndex <= Max(Len(questionQueue) - 1, 0)

\* the wrong records of question q in history
WrongRecordsOf(history, q) ==
    {i \in 1..Len(history) : history[i].questionId = q /\ ~history[i].isCorrect}

\* C27: markQuestionAsMastered(q) removes exactly the incorrect records of q:
\* afterwards q is not in getWrongQuestions(), the correct records of q and
\* the records of the other questions are kept in their order, and the review
\* status of every other question is unchanged.
MasteredRemovesExactly ==
    [][\A q \in QuestionIds :
          answerHistory' = MasteredHistory(answerHistory, q) =>
              /\ ~InSeq(q, GetWrongQuestionsOf(answerHistory'))
              /\ answerHistory' =
                    SelectSeq(answerHistory,
                              LAMBDA r : r.questionId # q \/ r.isCorrect)
              /\ Len(answerHistory') =
                    Len(answerHistory)
                        - Cardinality(WrongRecordsOf(answerHistory, q))
              /\ \A p \in QuestionIds \ {q} :
                    /\ InSeq(p, getWrongQuestions)
                          <=> InSeq(p, GetWrongQuestionsOf(answerHistory'))
                    /\ LatestIsWrong(answerHistory, p)
                          <=> LatestIsWrong(answerHistory', p)
      ]_vars

\* q1 was marked as mastered: its correct record is left, its wrong record
\* is gone, and q2 is still in review
MasteredBesideReview ==
    /\ userProfile.totalQuestions > Len(answerHistory)
    /\ \E i \in 1..Len(answerHistory) :
          answerHistory[i].questionId = "q1" /\ answerHistory[i].isCorrect
    /\ WrongRecordsOf(answerHistory, "q1") = {}
    /\ getWrongQuestions = <<"q2">>

\* C28: useQuestionStore.currentIndex is a valid position: 0 <= currentIndex,
\* currentIndex < questions.length when questions is not empty, 0 when it is,
\* and getCurrentQuestion() is null only when questions is empty.
CurrentIndexValid ==
    /\ 0 <= qsCurrentIndex
    /\ questions # <<>> => qsCurrentIndex < Len(questions)
    /\ questions = <<>> => qsCurrentIndex = 0
    /\ getCurrentQuestion = Null <=> questions = <<>>

\* the store is at the last question of a loaded list
AtLastQuestion ==
    /\ Len(questions) > 1
    /\ qsCurrentIndex = Len(questions) - 1
    /\ getCurrentQuestion = Last(questions)

\* C29: getWrongQuestions() lists no question twice, and only questions with
\* an incorrect record in answerHistory.
WrongQuestionsDistinct ==
    /\ \A i, j \in 1..Len(getWrongQuestions) :
          getWrongQuestions[i] = getWrongQuestions[j] => i = j
    /\ \A i \in 1..Len(getWrongQuestions) :
          WrongRecordsOf(answerHistory, getWrongQuestions[i]) # {}

\* a question was answered wrong more than once and is listed
MissedTwice ==
    \E q \in QuestionIds :
        /\ Cardinality(WrongRecordsOf(answerHistory, q)) > 1
        /\ InSeq(q, getWrongQuestions)

\* C30: currentStreak <= correctCount <= answerRecords.length in
\* useQuestionStore, so getAccuracy() lies in [0, 1] and is 0 when no answer is
\* recorded.
CounterOrdering ==
    /\ 0 <= currentStreak
    /\ currentStreak <= correctCount
    /\ correctCount <= Len(answerRecords)
    /\ 0 <= getAccuracy[1] /\ getAccuracy[1] <= getAccuracy[2]
    /\ getAccuracy[2] > 0
    /\ answerRecords = <<>> => getAccuracy[1] = 0

\* right, wrong, right: the three counters differ
CountersApart ==
    /\ 0 < currentStreak
    /\ currentStreak < correctCount
    /\ correctCount < Len(answerRecords)

\* a step of getRecommendedQuestions: the call or its return
SelectionStep ==
    recommendCount' # recommendCount \/ recommendations' # recommendations

\* C21: getRecommendedQuestions leaves the catalogue (content and order), the
\* user profiles and every answer ledger unchanged and records no answer.
SelectionHasNoSideEffects ==
    [][SelectionStep =>
          /\ mockQuestions' = mockQuestions
          /\ mockQuestions' = MOCK_QUESTIONS
          /\ UNCHANGED <<userProfile, answerHistory, streak, sessionQuestions,
                         sessionCorrect>>
          /\ UNCHANGED <<answerRecords, userAnswers, correctCount,
                         currentStreak>>
          /\ UNCHANGED <<user, mockUserProfile>>
      ]_vars

\* a batch in another order than the catalogue's was returned while both
\* stores hold answers
ShuffledBatchBesideLedger ==
    /\ recommendations # None
    /\ recommendations[1].batch # <<>>
    /\ recommendations[1].batch[1].question_id # MOCK_QUESTIONS[1]
    /\ answerHistory # <<>>
    /\ answerRecords # <<>>

\* C22: when loadMoreQuestions delivers its batch, the current question is
\* the first appended one (currentIndex is the length of the list before)
\* and userAnswers, showAnswers, correctCount and currentStreak of the
\* earlier questions are preserved.
LoadMoreContinuesSession ==
    [][loader.pc = "more" /\ loader'.pc = "idle" =>
          /\ qsCurrentIndex' = Len(questions)
          /\ userAnswers' = userAnswers
          /\ showAnswers' = showAnswers
          /\ correctCount' = correctCount
          /\ currentStreak' = currentStreak
      ]_vars

\* C25: a response with status 401 removes the stored auth_token and makes
\* request resolve to {success: false} with the login-expired message, for
\* every method.
UnauthorizedResponseHandled ==
    httpCall.pc = "done" /\ httpCall.statusCode = 401 =>
        /\ storage["auth_token"] = Null
        /\ httpCall.result = "expired"

ClosedSessions == {id \in 1..sessionsStarted : sessionId # Some(id)}

\* C23: a closed chat session has no conversation history: its id is neither
\* in aiConversationService.conversationHistory nor in
\* useAIStore.conversations, in any state after handleClose.
ClosedSessionHasNoHistory ==
    \A id \in ClosedSessions :
        /\ id \notin DOMAIN conversationHistory
        /\ id \notin DOMAIN conversations
====
